---- MODULE Spec2Model ----
(***************************************************************************)
(* Model of the LSE golden reference generators (Rololow/memoire).         *)
(*                                                                         *)
(* Part 1: lse_add_adaptive of code/scripts/lse_test_generator.py, the     *)
(*         width-adaptive saturating LSE approximation.                    *)
(* Part 2: the lane unpacking / packing of generate_simd_unified_tests.    *)
(* Part 3: generate_clut_values of generate_clut_values.py.                *)
(* Part 4: build_reference_vectors and main of generate_lse_add_vectors.py.*)
(* Part 5: lse_add_adaptive called on its own results (accumulation and    *)
(*         the two ways of combining three codes).                         *)
(***************************************************************************)
EXTENDS Integers, Sequences, FiniteSets, TLC

VARIABLES
    width,       \* argument `width` of lse_add_adaptive
    operand_a,   \* argument `operand_a`
    operand_b,   \* argument `operand_b`
    result,      \* value returned by the call (meaningful when pc = "returned")
    pc,          \* "ready" before the call, "returned" / "raised" after it
    mode,        \* test["mode"] of generate_simd_unified_tests
    x_lanes,     \* lane codes the operand word x_in is built from
    y_lanes,     \* lane codes the operand word y_in is built from
    x_in,        \* test["x_in"], a 24-bit word
    y_in,        \* test["y_in"], a 24-bit word
    exp_result,  \* exp_result computed by generate_simd_unified_tests
    test_index,  \* the loop variable i of `for i, test in enumerate(...)`
    exp_ch,      \* exp_ch0 .. exp_ch3, the lane results computed so far
    lanes_done,  \* the lanes whose exp_ch has been computed
    exception,   \* the exception a call ended with, "none" otherwise
    entries,     \* argument `entries` of generate_clut_values
    bit_width,   \* argument `bit_width` of generate_clut_values
    clut,        \* the tuple returned by generate_clut_values
    base_cases,    \* argument `base_cases` of build_reference_vectors
    random_count,  \* argument `random_count` (args.random)
    seed,          \* args.seed
    tolerance_lsb, \* argument `tolerance_lsb` (args.tolerance_lsb)
    value_range,   \* argument `value_range` (args.range)
    rng_state,     \* state of the random.Random object `rng`
    cases,         \* the arguments of the append_case calls of the last run
    vectors,       \* the list returned by the last run
    prev_vectors,  \* the list returned by the run before the last one
    runs,          \* number of runs of the vector generator so far
    acc,           \* the accumulator of acc = lse_add_adaptive(acc, x, W)
    acc_before,    \* the accumulator before the last accumulation step
    acc_steps,     \* number of accumulation steps so far
    operand_c,     \* the third code of a combination of three codes
    left_assoc,    \* lse_add_adaptive(lse_add_adaptive(a, b, W), c, W)
    right_assoc,   \* lse_add_adaptive(a, lse_add_adaptive(b, c, W), W)
    assoc_done     \* which of the two combinations have been computed

vars == <<width, operand_a, operand_b, result, pc,
          mode, x_lanes, y_lanes, x_in, y_in, exp_result, test_index,
          exp_ch, lanes_done, exception, entries, bit_width, clut,
          base_cases, random_count, seed, tolerance_lsb, value_range,
          rng_state, cases, vectors, prev_vectors, runs,
          acc, acc_before, acc_steps,
          operand_c, left_assoc, right_assoc, assoc_done>>

engineVars == <<width, operand_a, operand_b, result, pc>>
simdVars   == <<mode, x_lanes, y_lanes, x_in, y_in, exp_result, test_index>>
laneVars   == <<exp_ch, lanes_done>>
clutVars   == <<entries, bit_width, clut>>
vecArgs    == <<base_cases, random_count, seed, tolerance_lsb, value_range>>
vecVars    == <<vecArgs, rng_state, cases, vectors, prev_vectors, runs>>

\* the variables of the table and vector generators
genVars    == <<clutVars, vecVars>>

accVars    == <<acc, acc_before, acc_steps>>
assocVars  == <<operand_c, left_assoc, right_assoc, assoc_done>>

\* the variables of the repeated calls of lse_add_adaptive
foldVars   == <<accVars, assocVars>>

\* the variables other than those of the engine and of the SIMD tests
restVars   == <<laneVars, genVars, foldVars>>

----------------------------------------------------------------------------
(* Bounds of the model *)

\* widths 1 .. FullWidth are explored over every pair of codes
FullWidth == 7

\* wider widths are explored over codes within Margin of the anchor codes
Margin == 3

\* SIMD lanes with a positive correction are explored over the codes
\* MAX_VAL - 1 - LaneExtra .. MAX_VAL besides the fixed lane codes
LaneExtra == 0

\* the loop of generate_simd_unified_tests is followed over lists of up to
\* MaxTests test cases (the list of the function has three)
MaxTests == 3

\* CLUT tables are generated for the bit widths 1 .. MaxBitWidth
MaxBitWidth == 10

----------------------------------------------------------------------------
(* Bit operations of Python on non-negative integers *)

RECURSIVE BitAnd(_, _)
BitAnd(x, y) ==
    IF x = 0 \/ y = 0 THEN 0
    ELSE 2 * BitAnd(x \div 2, y \div 2)
         + (IF x % 2 = 1 /\ y % 2 = 1 THEN 1 ELSE 0)

RECURSIVE BitOr(_, _)
BitOr(x, y) ==
    IF x = 0 THEN y
    ELSE IF y = 0 THEN x
    ELSE 2 * BitOr(x \div 2, y \div 2)
         + (IF x % 2 = 1 \/ y % 2 = 1 THEN 1 ELSE 0)

ShiftLeft(x, n) == x * 2^n

ShiftRight(x, n) == x \div 2^n

----------------------------------------------------------------------------
(* lse_add_adaptive: the adaptive constants *)

\* `1 << (width - 1)` raises ValueError (negative shift count) when width < 1
NegativeShift(w) == w - 1 < 0

NEG_INF_VAL(w) == ShiftLeft(1, w - 1)

\* variant: the correction taken as a quarter of the width
SMALL_CORRECTION_quarter(w) == w \div 4

\* variant: the correction hard-coded to one quantum
SMALL_CORRECTION_fixed(w) == 1

SMALL_CORRECTION(w) == w \div 8

\* variant: the sign of the threshold dropped
DIFF_THRESHOLD_unsigned(w) == 2^(w - 4)

\* -(2 ** (width - 4)), an integer for width >= 4
DIFF_THRESHOLD(w) == -(2^(w - 4))

\* variant: the `- 1` forgotten
MAX_VAL_offbyone(w) == ShiftLeft(1, w)

MAX_VAL(w) == ShiftLeft(1, w) - 1

\* variant: `diff >= DIFF_THRESHOLD`
AboveThreshold_ge(diff, w) ==
    IF w >= 4 THEN diff >= DIFF_THRESHOLD(w)
    ELSE diff * 2^(4 - w) >= -1

\* `diff > DIFF_THRESHOLD`.  For width < 4 Python evaluates 2 ** (width - 4)
\* to the float 1 / 2^(4 - width); the comparison is then decided exactly by
\* diff * 2^(4 - width) > -1.
AboveThreshold(diff, w) ==
    IF w >= 4 THEN diff > DIFF_THRESHOLD(w)
    ELSE diff * 2^(4 - w) > -1

----------------------------------------------------------------------------
(* lse_add_adaptive: the computation *)

IsSentinelCase(a, b, w) == a = NEG_INF_VAL(w) \/ b = NEG_INF_VAL(w)

\* variant: the two assignments of the `if` exchanged
Larger_swapped(a, b) == IF a >= b THEN b ELSE a

Larger(a, b) == IF a >= b THEN a ELSE b

Smaller(a, b) == IF a >= b THEN b ELSE a

\* variant: the difference taken in argument order
Diff_unordered(a, b) == b - a

Diff(a, b) == Smaller(a, b) - Larger(a, b)

\* which return / assignment of the function is executed
Branch(a, b, w) ==
    IF IsSentinelCase(a, b, w) THEN "sentinel"
    ELSE IF AboveThreshold(Diff(a, b), w)
         THEN IF Larger(a, b) <= MAX_VAL(w) - SMALL_CORRECTION(w)
              THEN "correct"
              ELSE "saturate"
         ELSE "ignore"

\* variant: the correction added without the saturation test
Unmasked_nosat(a, b, w) ==
    IF AboveThreshold(Diff(a, b), w)
    THEN Larger(a, b) + SMALL_CORRECTION(w)
    ELSE Larger(a, b)

\* the local `result` just before `return result & MAX_VAL`
Unmasked(a, b, w) ==
    IF AboveThreshold(Diff(a, b), w)
    THEN IF Larger(a, b) <= MAX_VAL(w) - SMALL_CORRECTION(w)
         THEN Larger(a, b) + SMALL_CORRECTION(w)
         ELSE MAX_VAL(w)
    ELSE Larger(a, b)

\* variant: the result masked to the bits below the most significant one
lse_add_adaptive_halfmask(a, b, w) ==
    IF a = NEG_INF_VAL(w) \/ b = NEG_INF_VAL(w)
    THEN IF a = NEG_INF_VAL(w) /\ b = NEG_INF_VAL(w) THEN NEG_INF_VAL(w)
         ELSE IF a = NEG_INF_VAL(w) THEN b
         ELSE a
    ELSE BitAnd(Unmasked(a, b, w), ShiftRight(MAX_VAL(w), 1))

\* variant: the two single-sentinel returns exchanged
lse_add_adaptive_swapped(a, b, w) ==
    IF a = NEG_INF_VAL(w) \/ b = NEG_INF_VAL(w)
    THEN IF a = NEG_INF_VAL(w) /\ b = NEG_INF_VAL(w) THEN NEG_INF_VAL(w)
         ELSE IF a = NEG_INF_VAL(w) THEN a
         ELSE b
    ELSE BitAnd(Unmasked(a, b, w), MAX_VAL(w))

lse_add_adaptive(a, b, w) ==
    IF a = NEG_INF_VAL(w) \/ b = NEG_INF_VAL(w)
    THEN IF a = NEG_INF_VAL(w) /\ b = NEG_INF_VAL(w) THEN NEG_INF_VAL(w)
         ELSE IF a = NEG_INF_VAL(w) THEN b
         ELSE a
    ELSE BitAnd(Unmasked(a, b, w), MAX_VAL(w))

----------------------------------------------------------------------------
(* Inputs of the engine *)

Clip(S, w) == {c \in S : 0 <= c /\ c <= MAX_VAL(w)}

Near(c) == (c - Margin) .. (c + Margin)

\* codes around which the branches of lse_add_adaptive change
Anchors(w) ==
    {0, 2^(w - 4), NEG_INF_VAL(w) - 2^(w - 4), NEG_INF_VAL(w),
     NEG_INF_VAL(w) + 2^(w - 4), MAX_VAL(w) - 2^(w - 4), MAX_VAL(w)}

\* operands of the 2x12b test cases of generate_simd_2x12b_tests
TestCodes12 == {256, 512, 80, 4095, 1, 2048}

WideWidths == {8, 12, 24}

Widths == (-1 .. FullWidth) \cup WideWidths

Codes(w) ==
    IF w < 1 THEN {0, 1}
    ELSE IF w <= FullWidth THEN 0 .. MAX_VAL(w)
    ELSE Clip(UNION {Near(c) : c \in Anchors(w)}, w)
         \cup (IF w = 12 THEN TestCodes12 ELSE {})

----------------------------------------------------------------------------
(* Specification of the engine: one call of lse_add_adaptive *)

SimdIdle ==
    /\ mode = 0
    /\ x_lanes = <<>>
    /\ y_lanes = <<>>
    /\ x_in = 0
    /\ y_in = 0
    /\ exp_result = 0
    /\ test_index = 0

LaneIdle ==
    /\ exp_ch = <<>>
    /\ lanes_done = {}

NoClut == [quantized_values |-> <<>>, sample_points |-> <<>>,
           corrections |-> <<>>, max_correction |-> 0]

ClutIdle ==
    /\ entries = 0
    /\ bit_width = 0
    /\ clut = NoClut

\* no generator has been created yet
NoGenerator == [seed |-> 0, drawn |-> 0]

VecIdle ==
    /\ base_cases = <<>>
    /\ random_count = 0
    /\ seed = 0
    /\ tolerance_lsb = 0
    /\ value_range = <<>>
    /\ rng_state = NoGenerator
    /\ cases = <<>>
    /\ vectors = <<>>
    /\ prev_vectors = <<>>
    /\ runs = 0

GenIdle == ClutIdle /\ VecIdle

AccIdle ==
    /\ acc = 0
    /\ acc_before = 0
    /\ acc_steps = 0

AssocIdle ==
    /\ operand_c = 0
    /\ left_assoc = 0
    /\ right_assoc = 0
    /\ assoc_done = {}

FoldIdle == AccIdle /\ AssocIdle

RestIdle == LaneIdle /\ GenIdle /\ FoldIdle

Init ==
    /\ width \in Widths
    /\ operand_a \in Codes(width)
    /\ operand_b \in Codes(width)
    /\ result = 0
    /\ pc = "ready"
    /\ exception = "none"
    /\ SimdIdle
    /\ RestIdle

\* the call returns
CallReturns ==
    /\ pc = "ready"
    /\ ~NegativeShift(width)
    /\ result' = lse_add_adaptive(operand_a, operand_b, width)
    /\ pc' = "returned"
    /\ UNCHANGED <<width, operand_a, operand_b, exception>>
    /\ UNCHANGED simdVars
    /\ UNCHANGED restVars

\* the call raises ValueError while computing NEG_INF_VAL
CallRaises ==
    /\ pc = "ready"
    /\ NegativeShift(width)
    /\ pc' = "raised"
    /\ exception' = "ValueError"
    /\ UNCHANGED <<width, operand_a, operand_b, result>>
    /\ UNCHANGED simdVars
    /\ UNCHANGED restVars

Next == CallReturns \/ CallRaises

Spec == Init /\ [][Next]_vars

----------------------------------------------------------------------------
(* generate_simd_unified_tests: unpacking, per-lane LSE, packing *)

Modes == {0, 1, 2}

\* lane width and lane count of a mode: 24-bit, 2x12b, 4x6b
LaneWidth(m) == IF m = 0 THEN 24 ELSE IF m = 1 THEN 12 ELSE 6

LaneCount(m) == IF m = 0 THEN 1 ELSE IF m = 1 THEN 2 ELSE 4

\* variant: the mask of every lane one bit too wide
Unpack_widemask(word, m) ==
    IF m = 0 THEN <<word>>
    ELSE IF m = 1
    THEN <<BitAnd(word, 8191), BitAnd(ShiftRight(word, 12), 8191)>>
    ELSE <<BitAnd(word, 127), BitAnd(ShiftRight(word, 6), 127),
           BitAnd(ShiftRight(word, 12), 127), BitAnd(ShiftRight(word, 18), 127)>>

\* variant: the mask of every lane one bit too narrow
Unpack_narrowmask(word, m) ==
    IF m = 0 THEN <<word>>
    ELSE IF m = 1
    THEN <<BitAnd(word, 2047), BitAnd(ShiftRight(word, 12), 2047)>>
    ELSE <<BitAnd(word, 31), BitAnd(ShiftRight(word, 6), 31),
           BitAnd(ShiftRight(word, 12), 31), BitAnd(ShiftRight(word, 18), 31)>>

\* x_ch0 .. x_ch3 (y_ch0 .. y_ch3) of an operand word; mode 0 passes the
\* word itself to lse_add_adaptive
Unpack(word, m) ==
    IF m = 0 THEN <<word>>
    ELSE IF m = 1
    THEN <<BitAnd(word, 4095), BitAnd(ShiftRight(word, 12), 4095)>>
    ELSE <<BitAnd(word, 63), BitAnd(ShiftRight(word, 6), 63),
           BitAnd(ShiftRight(word, 12), 63), BitAnd(ShiftRight(word, 18), 63)>>

\* variant: the top lane of the 4x6b mode and the high lane of the 2x12b
\* mode shifted two bits short
Pack_shortshift(lanes, m) ==
    IF m = 0 THEN lanes[1]
    ELSE IF m = 1 THEN BitOr(ShiftLeft(lanes[2], 10), lanes[1])
    ELSE BitOr(BitOr(BitOr(ShiftLeft(lanes[4], 16), ShiftLeft(lanes[3], 12)),
                     ShiftLeft(lanes[2], 6)),
               lanes[1])

\* variant: lane 0 placed in the most significant bits
Pack_bigendian(lanes, m) ==
    IF m = 0 THEN lanes[1]
    ELSE IF m = 1 THEN BitOr(ShiftLeft(lanes[1], 12), lanes[2])
    ELSE BitOr(BitOr(BitOr(ShiftLeft(lanes[1], 18), ShiftLeft(lanes[2], 12)),
                     ShiftLeft(lanes[3], 6)),
               lanes[4])

\* exp_result from exp_ch0 .. exp_ch3
Pack(lanes, m) ==
    IF m = 0 THEN lanes[1]
    ELSE IF m = 1 THEN BitOr(ShiftLeft(lanes[2], 12), lanes[1])
    ELSE BitOr(BitOr(BitOr(ShiftLeft(lanes[4], 18), ShiftLeft(lanes[3], 12)),
                     ShiftLeft(lanes[2], 6)),
               lanes[1])

\* exp_ch0 .. exp_ch3
LaneResults(x, y, m) ==
    LET x_ch == Unpack(x, m)
        y_ch == Unpack(y, m)
    IN  [i \in 1 .. LaneCount(m) |->
            lse_add_adaptive(x_ch[i], y_ch[i], LaneWidth(m))]

\* one iteration of the loop over test_cases
SimdResult(x, y, m) == Pack(LaneResults(x, y, m), m)

----------------------------------------------------------------------------
(* Inputs of the SIMD tests *)

\* test_cases of generate_simd_unified_tests: 0x100050 and 0x100050 in
\* mode 0, 0x200100 and 0x100050 in mode 1, 0x041044 and 0x041044 in mode 2
test_cases ==
    <<[mode |-> 0, x_in |-> 1048656, y_in |-> 1048656],
      [mode |-> 1, x_in |-> 2097408, y_in |-> 1048656],
      [mode |-> 2, x_in |-> 266308, y_in |-> 266308]>>

\* The lists of test cases the loop is followed over are the list above and
\* lists that start with a test case built from the lane codes below and go
\* on with test cases that differ from the one before in a single lane, or
\* with the test case of the list above that has the same index.
\*
\* lane codes: zero, the sentinel and MAX_VAL; in the lanes wide enough to
\* have a positive correction also one, the threshold distance and the codes
\* next to MAX_VAL where the correction saturates
LaneCodes(w) ==
    {0, NEG_INF_VAL(w), MAX_VAL(w)}
    \cup (IF SMALL_CORRECTION(w) > 0
          THEN {1, 2^(w - 4)} \cup ((MAX_VAL(w) - 1 - LaneExtra) .. MAX_VAL(w))
          ELSE {})

LaneSeqs(m) == [1 .. LaneCount(m) -> LaneCodes(LaneWidth(m))]

----------------------------------------------------------------------------
(* Specification of the SIMD tests: the loop over test cases *)

EngineIdle ==
    /\ width = 0
    /\ operand_a = 0
    /\ operand_b = 0
    /\ result = 0

\* the first test case is built from lane codes
BuiltTest ==
    /\ mode \in Modes
    /\ x_lanes \in LaneSeqs(mode)
    /\ y_lanes \in LaneSeqs(mode)
    /\ x_in = Pack(x_lanes, mode)
    /\ y_in = Pack(y_lanes, mode)

\* the test case is test_cases[k], with the lanes its words hold
ListedTest(k) ==
    /\ mode = test_cases[k].mode
    /\ x_in = test_cases[k].x_in
    /\ y_in = test_cases[k].y_in
    /\ x_lanes = Unpack(x_in, mode)
    /\ y_lanes = Unpack(y_in, mode)

InitSimd ==
    /\ BuiltTest \/ ListedTest(1)
    /\ test_index = 0
    /\ exp_result = 0
    /\ pc = "ready"
    /\ exception = "none"
    /\ EngineIdle
    /\ RestIdle

\* the first test case is evaluated: the lanes are taken from the words,
\* the lane results are computed and packed
RunTest ==
    /\ pc = "ready"
    /\ x_lanes' = Unpack(x_in, mode)
    /\ y_lanes' = Unpack(y_in, mode)
    /\ exp_result' = SimdResult(x_in, y_in, mode)
    /\ pc' = "returned"
    /\ UNCHANGED <<mode, x_in, y_in, test_index>>
    /\ UNCHANGED <<width, operand_a, operand_b, result, exception>>
    /\ UNCHANGED restVars

\* the next test case, which differs from the last in lane i of x_in
NextTestX(i, v) ==
    /\ pc = "returned"
    /\ test_index + 1 < MaxTests
    /\ test_index' = test_index + 1
    /\ x_lanes' = [x_lanes EXCEPT ![i] = v]
    /\ x_in' = Pack(x_lanes', mode)
    /\ exp_result' = SimdResult(x_in', y_in, mode)
    /\ UNCHANGED <<mode, y_lanes, y_in, pc>>
    /\ UNCHANGED <<width, operand_a, operand_b, result, exception>>
    /\ UNCHANGED restVars

\* the next test case, which differs from the last in lane i of y_in
NextTestY(i, v) ==
    /\ pc = "returned"
    /\ test_index + 1 < MaxTests
    /\ test_index' = test_index + 1
    /\ y_lanes' = [y_lanes EXCEPT ![i] = v]
    /\ y_in' = Pack(y_lanes', mode)
    /\ exp_result' = SimdResult(x_in, y_in', mode)
    /\ UNCHANGED <<mode, x_lanes, x_in, pc>>
    /\ UNCHANGED <<width, operand_a, operand_b, result, exception>>
    /\ UNCHANGED restVars

\* the next test case is the one test_cases has at the next index
NextListedTest ==
    /\ pc = "returned"
    /\ test_index + 1 < Len(test_cases)
    /\ test_index' = test_index + 1
    /\ LET test == test_cases[test_index' + 1]
       IN  /\ mode' = test.mode
           /\ x_in' = test.x_in
           /\ y_in' = test.y_in
           /\ x_lanes' = Unpack(test.x_in, test.mode)
           /\ y_lanes' = Unpack(test.y_in, test.mode)
           /\ exp_result' = SimdResult(test.x_in, test.y_in, test.mode)
    /\ UNCHANGED pc
    /\ UNCHANGED <<width, operand_a, operand_b, result, exception>>
    /\ UNCHANGED restVars

NextSimd ==
    \/ RunTest
    \/ NextListedTest
    \/ \E i \in 1 .. LaneCount(mode), v \in LaneCodes(LaneWidth(mode)) :
          NextTestX(i, v)
    \/ \E i \in 1 .. LaneCount(mode), v \in LaneCodes(LaneWidth(mode)) :
          NextTestY(i, v)

SpecSimd == InitSimd /\ [][NextSimd]_vars


----------------------------------------------------------------------------
(* Specification of the lane evaluation order: the statements that compute *)
(* exp_ch0 .. exp_ch3 taken one at a time, in any order, then the packing  *)

\* variant: the statement of lane i also overwrites the result of the next
\* lane
LaneStep_spill(ch, i, x, y, m) ==
    LET v == lse_add_adaptive(Unpack(x, m)[i], Unpack(y, m)[i], LaneWidth(m))
    IN  [ch EXCEPT ![i] = v, ![IF i < LaneCount(m) THEN i + 1 ELSE i] = v]

\* `exp_ch<i> = lse_add_adaptive(x_ch<i>, y_ch<i>, W)`
LaneStep(ch, i, x, y, m) ==
    [ch EXCEPT
        ![i] = lse_add_adaptive(Unpack(x, m)[i], Unpack(y, m)[i], LaneWidth(m))]

InitLanes ==
    /\ \/ BuiltTest /\ test_index = 0
       \/ \E k \in 1 .. Len(test_cases) : ListedTest(k) /\ test_index = k - 1
    /\ exp_result = 0
    /\ exp_ch = [i \in 1 .. LaneCount(mode) |-> 0]
    /\ lanes_done = {}
    /\ pc = "ready"
    /\ exception = "none"
    /\ EngineIdle
    /\ GenIdle
    /\ FoldIdle

\* one lane statement is executed
EvalLane(i) ==
    /\ pc = "ready"
    /\ i \notin lanes_done
    /\ exp_ch' = LaneStep(exp_ch, i, x_in, y_in, mode)
    /\ lanes_done' = lanes_done \cup {i}
    /\ UNCHANGED <<mode, x_lanes, y_lanes, x_in, y_in, exp_result, pc>>
    /\ UNCHANGED test_index
    /\ UNCHANGED <<width, operand_a, operand_b, result, exception>>
    /\ UNCHANGED <<genVars, foldVars>>

\* `exp_result = (exp_ch3 << 18) | ... | exp_ch0` once every lane is computed
PackLanes ==
    /\ pc = "ready"
    /\ lanes_done = 1 .. LaneCount(mode)
    /\ exp_result' = Pack(exp_ch, mode)
    /\ pc' = "returned"
    /\ UNCHANGED <<mode, x_lanes, y_lanes, x_in, y_in, exp_ch, lanes_done>>
    /\ UNCHANGED test_index
    /\ UNCHANGED <<width, operand_a, operand_b, result, exception>>
    /\ UNCHANGED <<genVars, foldVars>>

NextLanes ==
    \/ \E i \in 1 .. LaneCount(mode) : EvalLane(i)
    \/ PackLanes

SpecLanes == InitLanes /\ [][NextLanes]_vars

----------------------------------------------------------------------------
(* generate_clut_values.py: the correction table                           *)
(*                                                                         *)
(* Real values are held as integers in units of 1 / ClutUnit.  The sample  *)
(* points are held in 48ths, which represents x_i = i / entries exactly    *)
(* for every entry count that divides 48.                                  *)

ClutUnit == 3 * 2^18

\* np.log2(1.0 + np.power(2.0, k / 48)) in units of 1 / ClutUnit, rounded to
\* the nearest unit, for k = 0 .. 47
LseExactTable ==
    <<
      786432, 794654, 802934, 811274, 819673, 828131,
      836648, 845225, 853860, 862554, 871307, 880119,
      888989, 897919, 906907, 915953, 925058, 934222,
      943443, 952723, 962061, 971457, 980910, 990421,
      999990, 1009616, 1019300, 1029040, 1038838, 1048692,
      1058603, 1068571, 1078594, 1088674, 1098810, 1109001,
      1119248, 1129551, 1139908, 1150320, 1160787, 1171309,
      1181885, 1192514, 1203198, 1213935, 1224725, 1235569
    >>

\* x in 48ths
lse_exact(x) == LseExactTable[x + 1]

\* x in 48ths; the result, x itself, in units of 1 / ClutUnit
lse_approximation(x) == x * (ClutUnit \div 48)

compute_correction_error(x) == lse_exact(x) - lse_approximation(x)

\* `1/entries` raises ZeroDivisionError when entries = 0
DividesByZero(n) == n = 0

\* np.linspace(0, 1 - 1/entries, entries), in 48ths
SamplePoints(n) == [i \in 1 .. n |-> (i - 1) * (48 \div n)]

\* variant: min(corrections) taken for the scaling
RECURSIVE MaxOf_min(_)
MaxOf_min(seq) ==
    IF Len(seq) = 1 THEN seq[1]
    ELSE LET m == MaxOf_min(Tail(seq))
         IN  IF seq[1] <= m THEN seq[1] ELSE m

\* max(corrections)
RECURSIVE MaxOf(_)
MaxOf(seq) ==
    IF Len(seq) = 1 THEN seq[1]
    ELSE LET m == MaxOf(Tail(seq))
         IN  IF seq[1] >= m THEN seq[1] ELSE m

\* Python round() of the quotient num / den (den > 0): to the nearest
\* integer, a tie to the even one
RoundHalfEven(num, den) ==
    LET q == num \div den
        r == num % den
    IN  IF 2 * r > den \/ (2 * r = den /\ q % 2 = 1) THEN q + 1 ELSE q

\* variant: 2 ** bit_width without the `- 1`
MaxIntValue_offbyone(bw) == 2^bw

\* max_int_value = (2**bit_width) - 1
MaxIntValue(bw) == (2^bw) - 1

Min2(a, b) == IF a <= b THEN a ELSE b

Max2(a, b) == IF a >= b THEN a ELSE b

\* variant: int(scaled) without round()
Quantize_truncated(corr, max_correction, bw) ==
    Min2((corr * MaxIntValue(bw)) \div max_correction, MaxIntValue(bw))

\* one iteration of the quantization loop
Quantize(corr, max_correction, bw) ==
    Min2(RoundHalfEven(corr * MaxIntValue(bw), max_correction), MaxIntValue(bw))

generate_clut_values(n, bw) ==
    LET sample_points == SamplePoints(n)
        corrections == [i \in 1 .. n |-> compute_correction_error(sample_points[i])]
        max_correction == MaxOf(corrections)
    IN  [quantized_values |->
             [i \in 1 .. n |-> Quantize(corrections[i], max_correction, bw)],
         sample_points |-> sample_points,
         corrections |-> corrections,
         max_correction |-> max_correction]

----------------------------------------------------------------------------
(* Specification of the CLUT generator: one call of generate_clut_values *)

\* entry counts: zero and the divisors of 48
ClutEntries == {0} \cup {n \in 1 .. 48 : 48 % n = 0}

InitClut ==
    /\ entries \in ClutEntries
    /\ bit_width \in 1 .. MaxBitWidth
    /\ clut = NoClut
    /\ pc = "ready"
    /\ exception = "none"
    /\ EngineIdle
    /\ SimdIdle
    /\ LaneIdle
    /\ VecIdle
    /\ FoldIdle

\* the call returns the table
ClutReturns ==
    /\ pc = "ready"
    /\ ~DividesByZero(entries)
    /\ clut' = generate_clut_values(entries, bit_width)
    /\ pc' = "returned"
    /\ UNCHANGED <<entries, bit_width, exception>>
    /\ UNCHANGED <<width, operand_a, operand_b, result>>
    /\ UNCHANGED <<simdVars, laneVars, vecVars, foldVars>>

\* the call raises while computing the sample points
ClutRaises ==
    /\ pc = "ready"
    /\ DividesByZero(entries)
    /\ pc' = "raised"
    /\ exception' = "ZeroDivisionError"
    /\ UNCHANGED <<entries, bit_width, clut>>
    /\ UNCHANGED <<width, operand_a, operand_b, result>>
    /\ UNCHANGED <<simdVars, laneVars, vecVars, foldVars>>

NextClut == ClutReturns \/ ClutRaises

SpecClut == InitClut /\ [][NextClut]_vars

----------------------------------------------------------------------------
(* Part 4: the reference-vector generator, generate_lse_add_vectors.py *)

WIDTH == 24

FRAC_BITS == 10

SCALE == ShiftLeft(1, FRAC_BITS)

MASK == ShiftLeft(1, WIDTH) - 1

\* A float is kept exactly: it is units / RealUnit plus the parts sub[1],
\* sub[2], sub[3], sub[4], each in 0 .. SubUnit - 1, where sub[i] counts
\* 1 / (RealUnit * SubUnit^i).  The floats of the generator are all of that
\* form: they are below 2^15 and have no bit under 2^-72.  `above` says that
\* the value is strictly above units / RealUnit, that is, some part is not 0.
RealUnit == 2^16

SubUnit == 2^14

\* the float with the given units and parts that need not be in range: the
\* carries go from the last part to the units
Carried(u, p) ==
    LET t4 == p[4]
        t3 == p[3] + (t4 \div SubUnit)
        t2 == p[2] + (t3 \div SubUnit)
        t1 == p[1] + (t2 \div SubUnit)
        parts == <<t1 % SubUnit, t2 % SubUnit, t3 % SubUnit, t4 % SubUnit>>
    IN  [units |-> u + (t1 \div SubUnit),
         sub |-> parts,
         above |-> parts # <<0, 0, 0, 0>>]

Real(u) == [units |-> u, sub |-> <<0, 0, 0, 0>>, above |-> FALSE]

\* a - b, the exact difference
RealMinus(a, b) ==
    Carried(a.units - b.units, [i \in 1 .. 4 |-> a.sub[i] - b.sub[i]])

\* a + b, the exact sum
RealPlus(a, b) ==
    Carried(a.units + b.units, [i \in 1 .. 4 |-> a.sub[i] + b.sub[i]])

\* k * a for a small whole number k, the exact product
RealTimes(k, a) == Carried(k * a.units, [i \in 1 .. 4 |-> k * a.sub[i]])

\* a >= b for two floats
RealGeq(a, b) == RealMinus(a, b).units >= 0

\* the position of the highest bit of n >= 1
RECURSIVE BitLength(_)
BitLength(n) == IF n <= 1 THEN 0 ELSE 1 + BitLength(n \div 2)

\* the position of the highest bit of x > 0, counted from the bit 2^-72
TopBit(x) ==
    IF x.units > 0 THEN BitLength(x.units) + 56
    ELSE LET i == CHOOSE i \in 1 .. 4 :
                      x.sub[i] # 0 /\ \A k \in 1 .. (i - 1) : x.sub[k] = 0
         IN  BitLength(x.sub[i]) + (14 * (4 - i))

\* x >= 0 rounded to the nearest float, a tie to the one with an even last
\* bit.  A float has 53 significant bits, so the last bit kept is bit
\* 2^-p with p = 124 - TopBit(x), which lies in part i; what is below it is
\* compared with half of it.  When p >= 72 every bit of x is kept.
RoundNearestEven(x) ==
    IF x.units = 0 /\ ~x.above THEN x
    ELSE IF 124 - TopBit(x) >= 72 THEN x
    ELSE LET p == 124 - TopBit(x)
             i == ((p - 17) \div 14) + 1
             m == 2^(((14 * i) + 16) - p)
             q == x.sub[i] \div m
             next == IF i < 4 THEN x.sub[i + 1] ELSE 0
             rest == \E k \in (i + 2) .. 4 : x.sub[k] # 0
             t == ((x.sub[i] % m) * SubUnit) + next
             half == m * (SubUnit \div 2)
             up == t > half \/ (t = half /\ (rest \/ q % 2 = 1))
         IN  Carried(x.units,
                     [k \in 1 .. 4 |->
                         IF k < i THEN x.sub[k]
                         ELSE IF k = i THEN (IF up THEN q + 1 ELSE q) * m
                         ELSE 0])

\* the float nearest to the exact value x: what a float operation returns
RoundFloat(x) ==
    IF x.units >= 0 THEN RoundNearestEven(x)
    ELSE RealMinus(Real(0), RoundNearestEven(RealMinus(Real(0), x)))

\* A float of magnitude 2^100 or more is kept as its exponent: Power2(e) is
\* the float 2.0 ** e, for 100 <= e <= 1023.
Power2(e) == [big |-> e]

IsBig(value) == "big" \in DOMAIN value

\* value * SCALE is inf: the product is 2^1024 or more
Overflows(value) == IsBig(value) /\ value.big + FRAC_BITS >= 1024

\* the float num / den (den a power of two up to RealUnit)
Frac(num, den) == Real((num * RealUnit) \div den)

\* round(value * SCALE): the nearest integer, a tie to the even one; a value
\* strictly above a tie rounds up
RoundScaled(value) ==
    LET den == RealUnit \div SCALE
        q == value.units \div den
        r == value.units % den
    IN  IF 2 * r > den \/ (2 * r = den /\ (value.above \/ q % 2 = 1))
        THEN q + 1 ELSE q

\* variant: int(value * SCALE) without round()
real_to_fixed_truncated(value) ==
    IF IsBig(value) THEN MASK
    ELSE LET fixed == IF value.units >= 0
                      THEN value.units \div (RealUnit \div SCALE)
                      ELSE -((-value.units) \div (RealUnit \div SCALE))
         IN  IF fixed < 0 THEN 0 ELSE IF fixed > MASK THEN MASK ELSE fixed

\* real_to_fixed for a value whose product with SCALE is finite; for the
\* others round() raises OverflowError (see CaseRaises)
real_to_fixed(value) ==
    IF IsBig(value) THEN MASK
    ELSE LET fixed == RoundScaled(value)
         IN  IF fixed < 0 THEN 0 ELSE IF fixed > MASK THEN MASK ELSE fixed

\* math.log1p(2.0 ** delta) / math.log(2.0), the float the library returns,
\* for the differences delta <= 0 of the operands used here: the multiples
\* of 0.5 down to -12, -1.625 and -18, and the differences of the operands
\* drawn by rng.uniform (see DrawTable).  Each row is <<units of delta,
\* parts of delta, units of the value, parts of the value>>.
Log1p2Table ==
    {<<0, <<0, 0, 0, 0>>, 65536, <<0, 0, 0, 0>>>>,
     <<-32768, <<0, 0, 0, 0>>, 50564, <<8475, 853, 15808, 0>>>>,
     <<-36132, <<2468, 4639, 1536, 0>>, 49185, <<10723, 14947, 6080, 0>>>>,
     <<-39415, <<7187, 4888, 13824, 0>>, 47867, <<14232, 2474, 5888, 0>>>>,
     <<-39415, <<7187, 4888, 13696, 0>>, 47867, <<14232, 2474, 5856, 0>>>>,
     <<-51521, <<2950, 15142, 384, 0>>, 43242, <<5203, 16099, 2336, 0>>>>,
     <<-51521, <<2950, 15142, 256, 0>>, 43242, <<5203, 16099, 2336, 0>>>>,
     <<-57441, <<10159, 7038, 2048, 0>>, 41112, <<6210, 6011, 9600, 0>>>>,
     <<-65536, <<0, 0, 0, 0>>, 38336, <<1678, 8125, 6688, 0>>>>,
     <<-68001, <<3792, 7862, 3072, 0>>, 37521, <<10345, 3172, 1760, 0>>>>,
     <<-69279, <<791, 8786, 10240, 0>>, 37104, <<13805, 5615, 12608, 0>>>>,
     <<-69279, <<791, 8786, 9728, 0>>, 37104, <<13805, 5615, 12448, 0>>>>,
     <<-83630, <<5929, 8215, 8960, 0>>, 32681, <<1179, 3817, 6224, 0>>>>,
     <<-83630, <<5929, 8215, 8704, 0>>, 32681, <<1179, 3817, 6176, 0>>>>,
     <<-83980, <<12972, 12670, 256, 0>>, 32579, <<757, 4218, 10192, 0>>>>,
     <<-83980, <<12972, 12670, 0, 0>>, 32579, <<757, 4218, 10112, 0>>>>,
     <<-98304, <<0, 0, 0, 0>>, 28622, <<15821, 7714, 1712, 0>>>>,
     <<-106496, <<0, 0, 0, 0>>, 26550, <<11767, 8290, 15072, 0>>>>,
     <<-107844, <<4624, 4708, 12800, 0>>, 26222, <<8592, 14868, 13312, 0>>>>,
     <<-107844, <<4624, 4708, 12544, 0>>, 26222, <<8592, 14868, 13264, 0>>>>,
     <<-127131, <<7672, 13076, 8832, 0>>, 21899, <<7007, 1056, 10096, 0>>>>,
     <<-127131, <<7672, 13076, 8704, 0>>, 21899, <<7007, 1056, 10080, 0>>>>,
     <<-131072, <<0, 0, 0, 0>>, 21097, <<14411, 13126, 14512, 0>>>>,
     <<-163840, <<0, 0, 0, 0>>, 15390, <<8393, 14372, 1256, 0>>>>,
     <<-168875, <<11152, 4226, 10240, 0>>, 14651, <<2444, 9949, 6432, 0>>>>,
     <<-196608, <<0, 0, 0, 0>>, 11136, <<3356, 16250, 13376, 0>>>>,
     <<-217176, <<9356, 9705, 15360, 0>>, 9059, <<12728, 8831, 4208, 0>>>>,
     <<-229376, <<0, 0, 0, 0>>, 8008, <<1109, 9729, 2752, 0>>>>,
     <<-239329, <<13655, 14924, 7936, 0>>, 7237, <<13151, 6029, 4600, 0>>>>,
     <<-262144, <<0, 0, 0, 0>>, 5731, <<15806, 11409, 3160, 0>>>>,
     <<-281167, <<11682, 253, 12800, 0>>, 4712, <<14955, 11727, 11884, 0>>>>,
     <<-289299, <<594, 560, 15360, 0>>, 4333, <<3827, 6086, 8520, 0>>>>,
     <<-294912, <<0, 0, 0, 0>>, 4088, <<12975, 10125, 4848, 0>>>>,
     <<-316931, <<7348, 14621, 1536, 0>>, 3253, <<12539, 4076, 0, 0>>>>,
     <<-317268, <<14104, 6549, 14848, 0>>, 3242, <<6532, 5348, 14518, 0>>>>,
     <<-327680, <<0, 0, 0, 0>>, 2909, <<6766, 11383, 15118, 0>>>>,
     <<-360448, <<0, 0, 0, 0>>, 2066, <<8142, 7116, 8540, 0>>>>,
     <<-372743, <<11268, 5109, 3584, 0>>, 1816, <<15209, 11354, 15450, 0>>>>,
     <<-377870, <<8877, 3980, 256, 0>>, 1721, <<14617, 5497, 13158, 0>>>>,
     <<-379336, <<9134, 12230, 13056, 0>>, 1695, <<10421, 11155, 11528, 0>>>>,
     <<-393216, <<0, 0, 0, 0>>, 1465, <<14696, 5899, 4650, 0>>>>,
     <<-396302, <<11662, 7634, 9472, 0>>, 1419, <<3040, 9040, 9660, 0>>>>,
     <<-396302, <<11662, 7634, 9216, 0>>, 1419, <<3040, 9040, 9656, 0>>>>,
     <<-400063, <<10533, 4291, 10496, 0>>, 1364, <<3880, 12973, 3230, 0>>>>,
     <<-425984, <<0, 0, 0, 0>>, 1038, <<14650, 1285, 553, 0>>>>,
     <<-458752, <<0, 0, 0, 0>>, 735, <<12933, 11742, 1065, 0>>>>,
     <<-459760, <<5139, 7268, 13824, 0>>, 728, <<312, 1877, 14121, 8192>>>>,
     <<-491520, <<0, 0, 0, 0>>, 520, <<14319, 8193, 10412, 8192>>>>,
     <<-524288, <<0, 0, 0, 0>>, 368, <<10001, 11642, 11037, 12288>>>>,
     <<-557056, <<0, 0, 0, 0>>, 260, <<13036, 8872, 5994, 8192>>>>,
     <<-560781, <<5449, 10258, 7680, 0>>, 250, <<12040, 13163, 4437, 4096>>>>,
     <<-563486, <<13230, 15350, 8704, 0>>, 243, <<11033, 10656, 2320, 0>>>>,
     <<-589824, <<0, 0, 0, 0>>, 184, <<7943, 16261, 3756, 10240>>>>,
     <<-597826, <<13401, 2503, 13824, 0>>, 169, <<8659, 12029, 1433, 0>>>>,
     <<-622592, <<0, 0, 0, 0>>, 130, <<7991, 8515, 13885, 4096>>>>,
     <<-655360, <<0, 0, 0, 0>>, 92, <<4709, 3536, 16197, 5120>>>>,
     <<-688128, <<0, 0, 0, 0>>, 65, <<4364, 9508, 9979, 8192>>>>,
     <<-720896, <<0, 0, 0, 0>>, 46, <<2539, 1519, 2750, 1536>>>>,
     <<-753664, <<0, 0, 0, 0>>, 32, <<10466, 9157, 11595, 14848>>>>,
     <<-765077, <<14047, 9475, 12288, 0>>, 28, <<15209, 7315, 11971, 1536>>>>,
     <<-786432, <<0, 0, 0, 0>>, 23, <<1315, 11306, 1791, 2304>>>>,
     <<-1179648, <<0, 0, 0, 0>>, 0, <<5909, 4384, 10289, 1492>>>>}

\* math.log1p(2.0 ** delta) / math.log(2.0)
Log1p2(delta) ==
    LET e == CHOOSE e \in Log1p2Table :
                 e[1] = delta.units /\ e[2] = delta.sub
    IN  Carried(e[3], e[4])

\* a >= b when one of the two is a power of two from 2^100
BigGeq(a, b) == IsBig(a) /\ (IsBig(b) => a.big >= b.big)

\* variant: the logarithm added to the smaller operand
compute_exact_lse_smaller(a_real, b_real) ==
    IF IsBig(a_real) \/ IsBig(b_real)
    THEN IF BigGeq(a_real, b_real) THEN b_real ELSE a_real
    ELSE LET max_val == IF RealGeq(a_real, b_real) THEN a_real ELSE b_real
             min_val == IF RealGeq(a_real, b_real) THEN b_real ELSE a_real
             delta == RoundFloat(RealMinus(min_val, max_val))
         IN  RoundFloat(RealPlus(min_val, Log1p2(delta)))

\* compute_exact_lse for finite operands (math.isinf(max_val) is false).
\* With an operand from 2^100 the logarithm term is 0.0 (2.0 ** delta is
\* 0.0) or at most 1.0 (equal operands), and max_val + it is max_val.
compute_exact_lse(a_real, b_real) ==
    IF IsBig(a_real) \/ IsBig(b_real)
    THEN IF BigGeq(a_real, b_real) THEN a_real ELSE b_real
    ELSE LET max_val == IF RealGeq(a_real, b_real) THEN a_real ELSE b_real
             min_val == IF RealGeq(a_real, b_real) THEN b_real ELSE a_real
             delta == RoundFloat(RealMinus(min_val, max_val))
         IN  RoundFloat(RealPlus(max_val, Log1p2(delta)))

\* Labels are sequences of character codes, compared as Python compares
\* str values.
\* "equal_5"
Label_equal_5 == <<101, 113, 117, 97, 108, 95, 53>>

\* "close_delta_0p5"
Label_close_delta_0p5 ==
    <<99, 108, 111, 115, 101, 95, 100, 101, 108, 116, 97, 95, 48, 112, 53>>

\* "close_delta_1"
Label_close_delta_1 ==
    <<99, 108, 111, 115, 101, 95, 100, 101, 108, 116, 97, 95, 49>>

\* "medium_delta_4"
Label_medium_delta_4 ==
    <<109, 101, 100, 105, 117, 109, 95, 100, 101, 108, 116, 97, 95, 52>>

\* "medium_delta_5"
Label_medium_delta_5 ==
    <<109, 101, 100, 105, 117, 109, 95, 100, 101, 108, 116, 97, 95, 53>>

\* "large_delta_18"
Label_large_delta_18 ==
    <<108, 97, 114, 103, 101, 95, 100, 101, 108, 116, 97, 95, 49, 56>>

\* "zero_zero"
Label_zero_zero == <<122, 101, 114, 111, 95, 122, 101, 114, 111>>

\* "zero_vs_4"
Label_zero_vs_4 == <<122, 101, 114, 111, 95, 118, 115, 95, 52>>

\* "four_vs_zero"
Label_four_vs_zero ==
    <<102, 111, 117, 114, 95, 118, 115, 95, 122, 101, 114, 111>>

\* "fractional_0p25"
Label_fractional_0p25 ==
    <<102, 114, 97, 99, 116, 105, 111, 110, 97, 108, 95, 48, 112, 50, 53>>

\* "fractional_1p5"
Label_fractional_1p5 ==
    <<102, 114, 97, 99, 116, 105, 111, 110, 97, 108, 95, 49, 112, 53>>

\* "fractional_2p75"
Label_fractional_2p75 ==
    <<102, 114, 97, 99, 116, 105, 111, 110, 97, 108, 95, 50, 112, 55, 53>>

BASE_CASES ==
    <<<<Label_equal_5, Frac(5, 1), Frac(5, 1)>>,
      <<Label_close_delta_0p5, Frac(5, 1), Frac(9, 2)>>,
      <<Label_close_delta_1, Frac(3, 1), Frac(2, 1)>>,
      <<Label_medium_delta_4, Frac(8, 1), Frac(4, 1)>>,
      <<Label_medium_delta_5, Frac(10, 1), Frac(5, 1)>>,
      <<Label_large_delta_18, Frac(20, 1), Frac(2, 1)>>,
      <<Label_zero_zero, Frac(0, 1), Frac(0, 1)>>,
      <<Label_zero_vs_4, Frac(0, 1), Frac(4, 1)>>,
      <<Label_four_vs_zero, Frac(4, 1), Frac(0, 1)>>,
      <<Label_fractional_0p25, Frac(1, 4), Frac(-3, 4)>>,
      <<Label_fractional_1p5, Frac(3, 2), Frac(0, 1)>>,
      <<Label_fractional_2p75, Frac(11, 4), Frac(9, 8)>>>>

\* base cases at the edges of real_to_fixed: negative operands, operands at
\* and above the top of the range, operands halfway between two codes
\* "neg_pair"
Label_neg_pair == <<110, 101, 103, 95, 112, 97, 105, 114>>

\* "huge_pair"
Label_huge_pair == <<104, 117, 103, 101, 95, 112, 97, 105, 114>>

\* "over_range"
Label_over_range == <<111, 118, 101, 114, 95, 114, 97, 110, 103, 101>>

\* "tie_even"
Label_tie_even == <<116, 105, 101, 95, 101, 118, 101, 110>>

\* "tie_odd"
Label_tie_odd == <<116, 105, 101, 95, 111, 100, 100>>

\* "tie_equal"
Label_tie_equal == <<116, 105, 101, 95, 101, 113, 117, 97, 108>>

EdgeCases ==
    <<<<Label_neg_pair, Frac(-1, 1), Frac(-3, 1)>>,
      <<Label_huge_pair, Frac(32767, 2), Frac(16383, 1)>>,
      <<Label_over_range, Frac(16390, 1), Frac(16385, 1)>>,
      <<Label_tie_even, Frac(513, 2048), Frac(-511, 2048)>>,
      <<Label_tie_odd, Frac(515, 2048), Frac(-1533, 2048)>>,
      <<Label_tie_equal, Frac(513, 2048), Frac(513, 2048)>>>>

\* "large_real"
Label_large_real == <<108, 97, 114, 103, 101, 95, 114, 101, 97, 108>>

\* "overflow_real"
Label_overflow_real == <<111, 118, 101, 114, 102, 108, 111, 119, 95, 114, 101, 97, 108>>

\* a base case with a finite operand far above the range
LargeCases == <<<<Label_large_real, Power2(100), Frac(0, 1)>>>>

\* a base case with a finite operand whose product with SCALE is inf
OverflowCases == <<<<Label_overflow_real, Power2(1020), Frac(0, 1)>>>>

\* "random_"
RandomPrefix == <<114, 97, 110, 100, 111, 109, 95>>

\* f"{idx:03d}": the decimal digits of idx, zero-padded to three
Digits3(idx) ==
    <<48 + ((idx \div 100) % 10), 48 + ((idx \div 10) % 10), 48 + (idx % 10)>>

\* f"random_{idx:03d}" (idx below 1000)
RandomLabel(idx) == RandomPrefix \o Digits3(idx)

\* s < t for str values: the first differing character decides, a proper
\* prefix is smaller
RECURSIVE LexLess(_, _)
LexLess(s, t) ==
    IF t = <<>> THEN FALSE
    ELSE IF s = <<>> THEN TRUE
    ELSE IF s[1] # t[1] THEN s[1] < t[1]
    ELSE LexLess(Tail(s), Tail(t))

\* vec placed after the elements of the sorted list whose label is not
\* greater than its own (list.sort is stable)
RECURSIVE InsertByLabel(_, _)
InsertByLabel(sorted, vec) ==
    IF sorted = <<>> THEN <<vec>>
    ELSE IF LexLess(vec.label, sorted[1].label) THEN <<vec>> \o sorted
    ELSE <<sorted[1]>> \o InsertByLabel(Tail(sorted), vec)

\* variant: the list left in the order the cases were appended
SortByLabel_unsorted(seq) == seq

\* vectors.sort(key=lambda vec: vec.label)
RECURSIVE SortByLabel(_)
SortByLabel(seq) ==
    IF seq = <<>> THEN <<>>
    ELSE InsertByLabel(SortByLabel(SubSeq(seq, 1, Len(seq) - 1)),
                       seq[Len(seq)])

\* The generator random.Random is a library object (the Mersenne Twister).
\* Its state is kept as the seed it was created from and the count of draws
\* made since; the values it returns are tabulated for the seeds of Seeds.
\*
\* the first draws of rng.random() after random.Random(s): each value as
\* <<units, sub[1], sub[2], sub[3]>> (a draw has 53 bits, sub[4] is 0)
DrawTable(s) ==
    CASE s = 0 ->
          <<<<55340, 499, 1342, 14272>>, <<49673, 4911, 1998, 832>>,
            <<27562, 9488, 5306, 6016>>, <<16968, 6031, 11857, 6752>>,
            <<33506, 14747, 14539, 8416>>, <<26537, 12511, 5666, 13248>>,
            <<51367, 398, 10466, 7840>>, <<19877, 14791, 12163, 7872>>,
            <<31234, 4226, 14162, 4032>>, <<38232, 8607, 2183, 12192>>,
            <<59514, 1409, 12247, 11872>>, <<33075, 2585, 1870, 14464>>,
            <<18470, 8601, 1932, 12416>>, <<49532, 6296, 12429, 10752>>,
            <<40525, 7054, 6475, 4800>>, <<16417, 3007, 14714, 608>>,
            <<59621, 2140, 4268, 2944>>, <<64407, 13581, 10508, 5504>>>>
      [] s = 1 ->
          <<<<8805, 11388, 9070, 11296>>, <<55537, 6838, 6850, 7936>>,
            <<50054, 12016, 8271, 8800>>, <<16716, 3336, 15455, 13760>>,
            <<32468, 13662, 1436, 14240>>, <<29457, 13867, 12746, 2080>>,
            <<42702, 13059, 604, 15168>>, <<51689, 12673, 11135, 3200>>,
            <<6151, 2979, 14792, 5696>>, <<1857, 12783, 2400, 13920>>,
            <<54772, 11499, 1941, 320>>, <<28361, 13476, 14082, 1824>>,
            <<49956, 12902, 2248, 14496>>, <<138, 365, 9284, 3360>>,
            <<29188, 14666, 2140, 7840>>, <<47286, 13886, 6792, 16128>>,
            <<14992, 2636, 11947, 10848>>, <<61949, 4264, 13399, 1920>>>>
      [] s = 2025 ->
          <<<<36552, 13864, 10839, 15424>>, <<42326, 1510, 11473, 960>>,
            <<31300, 6567, 9421, 14624>>, <<11356, 6340, 3838, 15296>>,
            <<29, 5258, 15893, 13600>>, <<63785, 10915, 85, 8480>>,
            <<37336, 7145, 14025, 10304>>, <<4311, 5387, 1008, 8352>>,
            <<26271, 9848, 12804, 12256>>, <<2841, 1264, 15556, 9216>>,
            <<50283, 12361, 11344, 11296>>, <<64356, 10067, 69, 13184>>,
            <<6510, 14547, 4771, 4480>>, <<3226, 5588, 14736, 160>>,
            <<1826, 7516, 7046, 15424>>, <<33437, 12216, 8758, 6144>>,
            <<51044, 9119, 3338, 7744>>, <<12731, 4086, 2578, 14368>>>>

\* the state of the generator after one more draw
RngNext(state) == [state EXCEPT !.drawn = @ + 1]

RECURSIVE RngAfter(_, _)
RngAfter(state, draws) ==
    IF draws = 0 THEN state ELSE RngNext(RngAfter(state, draws - 1))

\* variant: the generator of the previous run is used again
Random_shared(s, previous) == previous

\* random.Random(s): a new generator whose state is set from the seed,
\* whatever state `previous` an earlier generator was left in
Random(s, previous) == [seed |-> s, drawn |-> 0]

\* self.random() of the draw that leaves the generator in `state`
random(state) ==
    LET r == DrawTable(state.seed)[state.drawn]
    IN  Carried(r[1], <<r[2], r[3], r[4], 0>>)

\* rng.uniform(low, high), `state` being the state the draw leaves the
\* generator in: low + (high - low) * self.random(), each operation rounded
\* to a float; high - low is a whole number here
uniform(state, low, high) ==
    LET span == RoundFloat(RealMinus(high, low))
        scaled == RoundFloat(RealTimes(span.units \div RealUnit, random(state)))
    IN  RoundFloat(RealPlus(low, scaled))

\* append_case raises OverflowError: int(round(value * SCALE)) of
\* real_to_fixed is applied to a_real, to b_real and to exact, and round()
\* of inf raises
CaseRaises(a_real, b_real) ==
    \/ Overflows(a_real)
    \/ Overflows(b_real)
    \/ Overflows(compute_exact_lse(a_real, b_real))

\* the body of append_case: the ReferenceVector appended for one case
append_case(label, a_real, b_real, tol) ==
    LET a_fixed == real_to_fixed(a_real)
        b_fixed == real_to_fixed(b_real)
        exact == compute_exact_lse(a_real, b_real)
        expected_fixed == real_to_fixed(exact)
    IN  [label |-> label,
         operand_a |-> a_fixed,
         operand_b |-> b_fixed,
         expected |-> expected_fixed,
         min_expected |-> Max2(expected_fixed - tol, 0),
         max_expected |-> Min2(expected_fixed + tol, MASK),
         exact_value |-> exact,
         error_tolerance |-> Real(tol * (RealUnit \div SCALE))]

\* variant: operand b drawn before operand a
RandomCase_b_first(idx, rng, range) ==
    <<RandomLabel(idx),
      uniform(RngAfter(rng, (2 * idx) + 2), range[1], range[2]),
      uniform(RngAfter(rng, (2 * idx) + 1), range[1], range[2])>>

\* the arguments of the idx-th append_case call of the random loop, for a
\* generator in state rng at the start of the loop
RandomCase(idx, rng, range) ==
    <<RandomLabel(idx),
      uniform(RngAfter(rng, (2 * idx) + 1), range[1], range[2]),
      uniform(RngAfter(rng, (2 * idx) + 2), range[1], range[2])>>

\* the arguments of all append_case calls, in call order
AppendedCases(cs, count, rng, range) ==
    cs \o [i \in 1 .. count |-> RandomCase(i - 1, rng, range)]

build_reference_vectors(cs, count, rng, tol, range) ==
    LET appended == AppendedCases(cs, count, rng, range)
        unsorted == [i \in 1 .. Len(appended) |->
                        append_case(appended[i][1], appended[i][2],
                                    appended[i][3], tol)]
    IN  SortByLabel(unsorted)

Reverse(seq) == [i \in 1 .. Len(seq) |-> seq[(Len(seq) + 1) - i]]

----------------------------------------------------------------------------
(* Specification of the vector generator: runs of main, with the base     *)
(* cases, the count, the seed, the tolerance and the range given by the   *)
(* caller                                                                  *)

\* the random loop runs 0 .. MaxRandom times
MaxRandom == 2

\* the generator is run up to MaxRuns times on the same arguments
MaxRuns == 2

BaseCaseLists ==
    {BASE_CASES, Reverse(BASE_CASES), EdgeCases, LargeCases, OverflowCases,
     <<>>}

\* --seed: its default and two small values
Seeds == {0, 1, 2025}

\* --tolerance-lsb is any int: its default, small and negative values, and
\* a value above the whole code range
Tolerances == {-64, -1, 0, 1, 64, ShiftLeft(1, WIDTH)}

\* --range: its default and two ranges of the same span
ValueRanges == {<<Frac(0, 1), Frac(12, 1)>>,
                <<Frac(-6, 1), Frac(6, 1)>>,
                <<Frac(4, 1), Frac(16, 1)>>}

InitVec ==
    /\ base_cases \in BaseCaseLists
    /\ random_count \in 0 .. MaxRandom
    /\ seed \in Seeds
    /\ tolerance_lsb \in Tolerances
    /\ value_range \in ValueRanges
    /\ rng_state = NoGenerator
    /\ cases = <<>>
    /\ vectors = <<>>
    /\ prev_vectors = <<>>
    /\ runs = 0
    /\ pc = "ready"
    /\ exception = "none"
    /\ EngineIdle
    /\ SimdIdle
    /\ LaneIdle
    /\ ClutIdle
    /\ FoldIdle

\* the index of the first append_case call that raises, 0 when none does
FirstRaising(appended) ==
    IF \E i \in 1 .. Len(appended) : CaseRaises(appended[i][2], appended[i][3])
    THEN CHOOSE i \in 1 .. Len(appended) :
             /\ CaseRaises(appended[i][2], appended[i][3])
             /\ \A k \in 1 .. (i - 1) :
                   ~CaseRaises(appended[k][2], appended[k][3])
    ELSE 0

\* one run: the generator is created from the seed, the vectors are built
\* and sorted
main ==
    /\ pc # "raised"
    /\ runs < MaxRuns
    /\ FirstRaising(AppendedCases(base_cases, random_count,
                                  Random(seed, rng_state), value_range)) = 0
    /\ LET rng == Random(seed, rng_state)
       IN  /\ cases' = AppendedCases(base_cases, random_count, rng,
                                     value_range)
           /\ vectors' = build_reference_vectors(base_cases, random_count,
                                                 rng, tolerance_lsb,
                                                 value_range)
           /\ rng_state' = RngAfter(rng, 2 * random_count)
    /\ prev_vectors' = vectors
    /\ runs' = runs + 1
    /\ pc' = "returned"
    /\ UNCHANGED <<vecArgs, exception, clutVars>>
    /\ UNCHANGED <<width, operand_a, operand_b, result>>
    /\ UNCHANGED <<simdVars, laneVars, foldVars>>

\* one run that ends in append_case with OverflowError: `cases` are the
\* calls made, the last of which raised; nothing is returned
mainRaises ==
    /\ pc # "raised"
    /\ runs < MaxRuns
    /\ LET rng == Random(seed, rng_state)
           appended == AppendedCases(base_cases, random_count, rng,
                                     value_range)
           last == FirstRaising(appended)
       IN  /\ last > 0
           /\ cases' = SubSeq(appended, 1, last)
           /\ rng_state' = RngAfter(rng, 2 * Max2(last - Len(base_cases), 0))
    /\ exception' = "OverflowError"
    /\ pc' = "raised"
    /\ UNCHANGED <<vecArgs, vectors, prev_vectors, runs, clutVars>>
    /\ UNCHANGED <<width, operand_a, operand_b, result>>
    /\ UNCHANGED <<simdVars, laneVars, foldVars>>

NextVec == main \/ mainRaises

SpecVec == InitVec /\ [][NextVec]_vars

----------------------------------------------------------------------------
(* Specification of an accumulation: lse_add_adaptive called again and     *)
(* again with its previous result as operand_a and a new code as operand_b *)

\* an accumulation is followed for up to MaxAccSteps steps
MaxAccSteps == 3

\* the lane widths of the SIMD modes
AccWidths == {6, 12, 24}

\* codes within Margin of zero, of the sentinel and of MAX_VAL
TripleCodes(w) ==
    Clip(Near(0) \cup Near(NEG_INF_VAL(w)) \cup Near(MAX_VAL(w)), w)

\* the codes fed to an accumulation: the sentinel is left out
FiniteCodes(w) == TripleCodes(w) \ {NEG_INF_VAL(w)}

InitAcc ==
    /\ width \in AccWidths
    /\ acc \in FiniteCodes(width)
    /\ acc_before = acc
    /\ acc_steps = 0
    /\ operand_a = 0
    /\ operand_b = 0
    /\ result = 0
    /\ pc = "ready"
    /\ exception = "none"
    /\ SimdIdle
    /\ LaneIdle
    /\ GenIdle
    /\ AssocIdle

\* one step: acc = lse_add_adaptive(acc, x, width)
Accumulate(x) ==
    /\ acc_steps < MaxAccSteps
    /\ operand_a' = acc
    /\ operand_b' = x
    /\ result' = lse_add_adaptive(acc, x, width)
    /\ acc' = result'
    /\ acc_before' = acc
    /\ acc_steps' = acc_steps + 1
    /\ pc' = "returned"
    /\ UNCHANGED <<width, exception>>
    /\ UNCHANGED <<simdVars, laneVars, genVars, assocVars>>

NextAcc == \E x \in FiniteCodes(width) : Accumulate(x)

SpecAcc == InitAcc /\ [][NextAcc]_vars

----------------------------------------------------------------------------
(* Specification of the combination of three codes a, b, c in the two      *)
(* possible groupings                                                      *)

AssocWidths == AccWidths

InitAssoc ==
    /\ width \in AssocWidths
    /\ operand_a \in TripleCodes(width)
    /\ operand_b \in TripleCodes(width)
    /\ operand_c \in TripleCodes(width)
    /\ left_assoc = 0
    /\ right_assoc = 0
    /\ assoc_done = {}
    /\ result = 0
    /\ pc = "ready"
    /\ exception = "none"
    /\ SimdIdle
    /\ LaneIdle
    /\ GenIdle
    /\ AccIdle

\* (a + b) + c
CombineLeft ==
    /\ "left" \notin assoc_done
    /\ left_assoc' = lse_add_adaptive(
                         lse_add_adaptive(operand_a, operand_b, width),
                         operand_c, width)
    /\ assoc_done' = assoc_done \cup {"left"}
    /\ UNCHANGED <<operand_c, right_assoc>>
    /\ UNCHANGED <<engineVars, exception>>
    /\ UNCHANGED <<simdVars, laneVars, genVars, accVars>>

\* a + (b + c)
CombineRight ==
    /\ "right" \notin assoc_done
    /\ right_assoc' = lse_add_adaptive(
                          operand_a,
                          lse_add_adaptive(operand_b, operand_c, width),
                          width)
    /\ assoc_done' = assoc_done \cup {"right"}
    /\ UNCHANGED <<operand_c, left_assoc>>
    /\ UNCHANGED <<engineVars, exception>>
    /\ UNCHANGED <<simdVars, laneVars, genVars, accVars>>

NextAssoc == CombineLeft \/ CombineRight

SpecAssoc == InitAssoc /\ [][NextAssoc]_vars

----------------------------------------------------------------------------
(* Specification of the lane slicing of a word: the loop of                *)
(* generate_simd_unified_tests over test cases whose x_in is any word and  *)
(* whose y_in holds the sentinel in every lane, so that every lane result  *)
(* is the lane of x_in                                                     *)

\* x_in of the three test cases
TestWords == {test_cases[k].x_in : k \in 1 .. Len(test_cases)}

\* 24-bit words: those of the test cases, the words with one bit set, with
\* the low bits set, and with one bit clear
Words ==
    TestWords
    \cup {2^k : k \in 0 .. 23}
    \cup {2^k - 1 : k \in 0 .. 24}
    \cup {(2^24 - 1) - 2^k : k \in 0 .. 23}

\* the word whose lanes all hold NEG_INF_VAL
SentinelWord(m) ==
    Pack([i \in 1 .. LaneCount(m) |-> NEG_INF_VAL(LaneWidth(m))], m)

\* the first test case has any word as x_in and the sentinel word as y_in
SliceTest ==
    /\ mode \in Modes
    /\ x_in \in Words
    /\ y_in = SentinelWord(mode)
    /\ x_lanes = <<>>
    /\ y_lanes = <<>>

InitSlice ==
    /\ SliceTest \/ ListedTest(1)
    /\ test_index = 0
    /\ exp_result = 0
    /\ pc = "ready"
    /\ exception = "none"
    /\ EngineIdle
    /\ RestIdle

NextSlice == RunTest \/ NextListedTest

SpecSlice == InitSlice /\ [][NextSlice]_vars

----------------------------------------------------------------------------
(* Properties of lse_add_adaptive *)

Returned == pc = "returned"

\* the operands as the properties read them
OpMax == IF operand_a >= operand_b THEN operand_a ELSE operand_b

OpMin == IF operand_a >= operand_b THEN operand_b ELSE operand_a

OpDiff == OpMin - OpMax

Sentinel == 2^(width - 1)

Top == 2^width - 1

NoSentinel == operand_a # Sentinel /\ operand_b # Sentinel

\* diff > -2^(width-4), stated over the integers for every width >= 1
DiffCloserThanThreshold == 16 * OpDiff > -(2^width)

\* C1: sentinel identity.  With NEG_INF = 2^(W-1): two sentinels give the
\* sentinel, and a sentinel with a non-sentinel code x gives x unchanged,
\* on either side.
C1_SentinelIdentity ==
    Returned =>
        /\ (operand_a = Sentinel /\ operand_b = Sentinel) => result = Sentinel
        /\ (operand_a = Sentinel /\ operand_b # Sentinel) => result = operand_b
        /\ (operand_a # Sentinel /\ operand_b = Sentinel) => result = operand_a

C1_Witness ==
    /\ Returned
    /\ width = 24
    /\ operand_a = Sentinel
    /\ operand_b = Top
    /\ result = Top

\* C2: commutativity.  The value returned for (a, b) is the value the
\* function gives for (b, a), for sentinel and non-sentinel codes alike.
C2_Commutative ==
    Returned => result = lse_add_adaptive(operand_b, operand_a, width)

C2_Witness ==
    /\ Returned
    /\ width = 12
    /\ operand_a < operand_b
    /\ NoSentinel
    /\ OpDiff = -256
    /\ result = operand_b

\* C3: correction with saturation.  For non-sentinel operands with
\* diff > DIFF_THRESHOLD the result is max + (W div 8) when
\* max <= MAX_VAL - (W div 8) and MAX_VAL otherwise; it is never below max.
C3_CorrectionSaturates ==
    (Returned /\ NoSentinel /\ DiffCloserThanThreshold) =>
        /\ OpMax <= Top - (width \div 8) => result = OpMax + (width \div 8)
        /\ OpMax > Top - (width \div 8) => result = Top
        /\ result >= OpMax

C3_Witness ==
    /\ Returned
    /\ NoSentinel
    /\ DiffCloserThanThreshold
    /\ width = 24
    /\ OpMax = Top - 1
    /\ result = Top

\* C4: strict threshold boundary.  For non-sentinel operands with
\* diff <= DIFF_THRESHOLD, equality included, the result is max unchanged;
\* at W = 12, diff = -256 gives max and diff = -255 gives max + 1 (max
\* below MAX_VAL).
C4_StrictThreshold ==
    (Returned /\ NoSentinel) =>
        /\ ~DiffCloserThanThreshold => result = OpMax
        /\ (width = 12 /\ OpDiff = -256) => result = OpMax
        /\ (width = 12 /\ OpDiff = -255 /\ OpMax < Top) => result = OpMax + 1

C4_Witness ==
    /\ Returned
    /\ NoSentinel
    /\ width = 12
    /\ OpDiff = -256
    /\ OpMax < Top
    /\ result = OpMax

\* the function with the comparison written `diff >= DIFF_THRESHOLD`
lse_add_adaptive_ge(a, b, w) ==
    IF a = NEG_INF_VAL(w) \/ b = NEG_INF_VAL(w)
    THEN IF a = NEG_INF_VAL(w) /\ b = NEG_INF_VAL(w) THEN NEG_INF_VAL(w)
         ELSE IF a = NEG_INF_VAL(w) THEN b
         ELSE a
    ELSE BitAnd(IF Diff(a, b) >= DIFF_THRESHOLD(w)
                THEN IF Larger(a, b) <= MAX_VAL(w) - SMALL_CORRECTION(w)
                     THEN Larger(a, b) + SMALL_CORRECTION(w)
                     ELSE MAX_VAL(w)
                ELSE Larger(a, b),
                MAX_VAL(w))

\* C5 as claimed: at W = 6 some non-sentinel operands with diff = -4 give a
\* result that differs from the result under `>=`.
C5_EdgeDistinguishesAtW6 ==
    (Returned /\ width = 6) =>
        \E a, b \in 0 .. 63 :
            /\ a # 32 /\ b # 32
            /\ (a - b = 4 \/ b - a = 4)
            /\ lse_add_adaptive(a, b, 6) # lse_add_adaptive_ge(a, b, 6)

\* C5 amended: at W = 6 the correction is 6 div 8 = 0, so every pair of
\* non-sentinel operands with diff = -4 gives max(a, b) under `>` and under
\* `>=` alike; the boundary separates the two comparisons only where the
\* correction is positive, as at W = 12 with diff = -256 and max < MAX_VAL.
C5_EdgeIndistinguishableAtW6 ==
    (Returned /\ NoSentinel) =>
        /\ (width = 6 /\ OpDiff = -4) =>
              /\ result = OpMax
              /\ lse_add_adaptive_ge(operand_a, operand_b, width) = result
        /\ (width = 12 /\ OpDiff = -256 /\ OpMax < Top) =>
              lse_add_adaptive_ge(operand_a, operand_b, width) # result

C5_Witness ==
    /\ Returned
    /\ NoSentinel
    /\ width = 6
    /\ OpDiff = -4
    /\ OpMax < Top
    /\ lse_add_adaptive_ge(operand_a, operand_b, width) = result

\* C6: saturation boundary example.  At W = 12 the correction is 1 and
\* MAX_VAL is 0xFFF, and the call (0xFFF, 0x001, 12) returns 0xFFF.
C6_SaturationExample ==
    (Returned /\ width = 12 /\ operand_a = 4095 /\ operand_b = 1) =>
        /\ SMALL_CORRECTION(12) = 1
        /\ MAX_VAL(12) = 4095
        /\ result = 4095

C6_Witness ==
    /\ Returned
    /\ width = 12
    /\ operand_a = 4095
    /\ operand_b = 1
    /\ result = Top

\* C7: end-to-end example.  The call (0x100, 0x050, 12) has larger = 0x100,
\* smaller = 0x050, diff = -176 > DIFF_THRESHOLD = -256, takes the
\* correction branch and returns 0x101.
C7_EndToEndExample ==
    (Returned /\ width = 12 /\ operand_a = 256 /\ operand_b = 80) =>
        /\ Larger(operand_a, operand_b) = 256
        /\ Smaller(operand_a, operand_b) = 80
        /\ Diff(operand_a, operand_b) = -176
        /\ DIFF_THRESHOLD(width) = -256
        /\ Branch(operand_a, operand_b, width) = "correct"
        /\ result = 257

C7_Witness ==
    /\ Returned
    /\ width = 12
    /\ operand_a = 256
    /\ operand_b = 80
    /\ result = OpMax + 1

\* C8: totality and defensive mask.  For W >= 4 the call returns (it never
\* raises), and the value held before `& MAX_VAL` is already within
\* 0 .. 2^W - 1, so the mask leaves it unchanged.
C8_TotalAndMaskIdle ==
    (width >= 4 /\ pc # "ready") =>
        /\ Returned
        /\ result \in 0 .. Top
        /\ NoSentinel =>
              /\ Unmasked(operand_a, operand_b, width) \in 0 .. Top
              /\ result = Unmasked(operand_a, operand_b, width)

C8_Witness ==
    /\ Returned
    /\ width = 12
    /\ NoSentinel
    /\ Branch(operand_a, operand_b, width) = "saturate"
    /\ result = Unmasked(operand_a, operand_b, width)

----------------------------------------------------------------------------
(* Properties of the lane packing *)

\* bits [i*W, (i+1)*W - 1] of a word, lanes counted from 1
LaneOf(word, i, m) ==
    (word \div 2^((i - 1) * LaneWidth(m))) % 2^LaneWidth(m)

\* C9: lane round-trip.  For (24,1), (12,2), (6,4): the word packed from a
\* sequence of lane codes unpacks, by the generator's own unpacking and by
\* (word >> i*W) & (2^W - 1), to the same sequence in the same order.
C9_LaneRoundTrip ==
    /\ Unpack(Pack(x_lanes, mode), mode) = x_lanes
    /\ Unpack(Pack(y_lanes, mode), mode) = y_lanes
    /\ \A i \in 1 .. LaneCount(mode) :
          /\ LaneOf(Pack(x_lanes, mode), i, mode) = x_lanes[i]
          /\ LaneOf(Pack(y_lanes, mode), i, mode) = y_lanes[i]

C9_Witness ==
    /\ pc = "returned"
    /\ mode = 2
    /\ x_lanes = <<63, 0, 32, 63>>
    /\ x_in = Pack(x_lanes, mode)
    /\ Unpack(x_in, mode) = <<63, 0, 32, 63>>

\* C10: lane independence.  Between two evaluated test cases of the same
\* mode that agree on lane i of both operand words, lane i of the result
\* word is the same, whatever the other lanes hold.
C10_LaneIndependence ==
    [][(pc = "returned" /\ pc' = "returned" /\ mode' = mode) =>
          \A i \in 1 .. LaneCount(mode) :
              (/\ LaneOf(x_in', i, mode) = LaneOf(x_in, i, mode)
               /\ LaneOf(y_in', i, mode) = LaneOf(y_in, i, mode))
              => LaneOf(exp_result', i, mode) = LaneOf(exp_result, i, mode)]_vars

C10_Witness ==
    /\ pc = "returned"
    /\ mode = 1
    /\ x_lanes = <<4095, 2048>>
    /\ y_lanes = <<4094, 1>>
    /\ LaneOf(exp_result, 1, mode) = 4095
    /\ LaneOf(exp_result, 2, mode) = 1

\* C11: SIMD application is lane-wise and little-endian.  In modes 0, 1
\* and 2, bits [i*W, (i+1)*W - 1] of the result word are lse_add_adaptive
\* of the same bits of the two operand words, lane 0 being the least
\* significant, and the result word is below 2^24.
C11_LaneWise ==
    pc = "returned" =>
        /\ exp_result \in 0 .. (2^24 - 1)
        /\ \A i \in 1 .. LaneCount(mode) :
              LaneOf(exp_result, i, mode) =
                  lse_add_adaptive(LaneOf(x_in, i, mode), LaneOf(y_in, i, mode),
                                   LaneWidth(mode))

C11_Witness ==
    /\ pc = "returned"
    /\ mode = 1
    /\ x_in = 256 + 4096 * 4095
    /\ y_in = 1 + 4096 * 4094
    /\ exp_result = 257 + 4096 * 4095

\* C12: lane order independence.  Whatever the order in which the lane
\* statements are executed, the packed result word is the word the
\* generator computes in index order.
C12_OrderIndependent ==
    (pc = "returned" /\ lanes_done = 1 .. LaneCount(mode)) =>
        /\ exp_result = SimdResult(x_in, y_in, mode)
        /\ \A i \in 1 .. LaneCount(mode) :
              LaneOf(exp_result, i, mode) =
                  lse_add_adaptive(x_lanes[i], y_lanes[i], LaneWidth(mode))

C12_Witness ==
    /\ pc = "ready"
    /\ mode = 2
    /\ lanes_done = {2, 4}
    /\ x_lanes = <<63, 0, 32, 63>>
    /\ y_lanes = <<0, 32, 32, 0>>
    /\ exp_ch = <<0, 0, 0, 63>>

----------------------------------------------------------------------------
(* Properties of the CLUT generator *)

IsPowerOfTwo(n) == \E k \in 0 .. 30 : n = 2^k

\* C13: CLUT range.  Every quantized value of a returned table lies in
\* 0 .. 2^bit_width - 1.
C13_ClutRange ==
    pc = "returned" =>
        \A i \in 1 .. Len(clut.quantized_values) :
            /\ clut.quantized_values[i] >= 0
            /\ clut.quantized_values[i] <= 2^bit_width - 1

C13_Witness ==
    /\ pc = "returned"
    /\ entries = 48
    /\ bit_width = 1
    /\ Len(clut.quantized_values) = 48
    /\ clut.quantized_values[1] = 1
    /\ clut.quantized_values[48] = 1

\* C14 as claimed: for entries = 16 and bit_width = 10 the quantized value
\* at sample index 0 is 0.
C14_FirstEntryZero ==
    (pc = "returned" /\ entries = 16 /\ bit_width = 10) =>
        clut.quantized_values[1] = 0

\* C14 amended: for entries = 16 and bit_width = 10 the quantized value at
\* sample index 0 is 1023 = 2^bit_width - 1, the error e(0) = 1 being the
\* largest of the table.
C14_FirstEntryIsMax ==
    (pc = "returned" /\ entries = 16 /\ bit_width = 10) =>
        /\ clut.sample_points[1] = 0
        /\ clut.corrections[1] = clut.max_correction
        /\ clut.quantized_values[1] = 1023

C14_Witness ==
    /\ pc = "returned"
    /\ entries = 16
    /\ bit_width = 10
    /\ clut.quantized_values[1] = 1023
    /\ clut.quantized_values[16] = 620

\* C15: CLUT configuration check.  A call with an entry count that is not a
\* power of two ends with InvalidConfiguration and returns no table.
C15_RejectsNonPowerOfTwo ==
    (pc # "ready" /\ ~IsPowerOfTwo(entries)) =>
        /\ pc = "raised"
        /\ exception = "InvalidConfiguration"
        /\ clut = NoClut

\* C16: CLUT quantization.  The table has `entries` values in address
\* order, sample i is i / entries, max_correction is the largest error of
\* the samples and is returned with the table, and each quantized value is
\* the integer nearest to e(x_i) / max_correction * (2^bit_width - 1).
C16_ClutQuantization ==
    pc = "returned" =>
        /\ Len(clut.quantized_values) = entries
        /\ Len(clut.corrections) = entries
        /\ \A i \in 1 .. entries :
              /\ clut.sample_points[i] * entries = (i - 1) * 48
              /\ clut.corrections[i] =
                     LseExactTable[clut.sample_points[i] + 1]
                     - clut.sample_points[i] * (ClutUnit \div 48)
              /\ clut.corrections[i] <= clut.max_correction
              /\ LET d == clut.corrections[i] * (2^bit_width - 1)
                          - clut.quantized_values[i] * clut.max_correction
                 IN  2 * d <= clut.max_correction /\ -2 * d <= clut.max_correction
        /\ \E i \in 1 .. entries : clut.corrections[i] = clut.max_correction

C16_Witness ==
    /\ pc = "returned"
    /\ entries = 16
    /\ bit_width = 10
    /\ clut.quantized_values =
           <<1023, 991, 960, 930, 901, 872, 844, 816,
             789, 763, 738, 713, 689, 665, 642, 620>>

----------------------------------------------------------------------------
(* Claims about the reference-vector generator *)

\* the codes of the fixed-point format, stated from the format itself
TopCode == (2^24) - 1

ClampCode(n) == IF n < 0 THEN 0 ELSE IF n > TopCode THEN TopCode ELSE n

\* n is the integer nearest to value * 2^10, the even one of the two when
\* value * 2^10 lies exactly halfway
IsNearest(n, value) ==
    LET den == RealUnit \div (2^10)
        d == value.units - (den * n)
    IN  IF value.above
        THEN (-den <= 2 * d) /\ (2 * d < den)
        ELSE \/ (-den < 2 * d) /\ (2 * d < den)
             \/ (2 * d = den \/ 2 * d = -den) /\ n % 2 = 0

\* code is round(value * 2^10) clamped to the codes of the format
IsFixedOf(code, value) ==
    IF IsBig(value) THEN code = TopCode
    ELSE \E n \in {value.units \div (RealUnit \div (2^10)),
                   (value.units \div (RealUnit \div (2^10))) + 1} :
             IsNearest(n, value) /\ code = ClampCode(n)

\* C17: tolerance containment.  Every vector returned for any integer
\* tolerance_lsb satisfies 0 <= min_expected <= expected <= max_expected
\* <= 2^24 - 1, with min_expected = max(expected - tolerance_lsb, 0) and
\* max_expected = min(expected + tolerance_lsb, 2^24 - 1).
C17_ToleranceContainment ==
    \A j \in 1 .. Len(vectors) :
        /\ 0 <= vectors[j].min_expected
        /\ vectors[j].min_expected <= vectors[j].expected
        /\ vectors[j].expected <= vectors[j].max_expected
        /\ vectors[j].max_expected <= TopCode
        /\ vectors[j].min_expected =
               Max2(vectors[j].expected - tolerance_lsb, 0)
        /\ vectors[j].max_expected =
               Min2(vectors[j].expected + tolerance_lsb, TopCode)

\* C18: fixed-point conversion.  For the finite real operands of every
\* case, a run ends without an exception and returns one vector for each
\* case, in which operand_a and operand_b are round(v * 2^10) clamped to
\* [0, 2^24 - 1] of the real operands of the case (negative values give 0,
\* values above the range 0xFFFFFF), and expected is the same conversion of
\* exact_value.
C18_FixedPointConversion ==
    (runs > 0 \/ pc = "raised") =>
        /\ exception = "none"
        /\ Len(vectors) = Len(cases)
        /\ \A i \in 1 .. Len(cases) :
              \E j \in 1 .. Len(vectors) :
                  /\ vectors[j].label = cases[i][1]
                  /\ IsFixedOf(vectors[j].operand_a, cases[i][2])
                  /\ IsFixedOf(vectors[j].operand_b, cases[i][3])
                  /\ IsFixedOf(vectors[j].expected, vectors[j].exact_value)

\* the conversion where it returns: a run whose cases have a negative
\* operand, an operand above the range and an operand halfway between two
\* codes, and a run with the operand 2^100
C18_Converted ==
    runs > 0 =>
        /\ Len(vectors) = Len(cases)
        /\ \A i \in 1 .. Len(cases) :
              \E j \in 1 .. Len(vectors) :
                  /\ vectors[j].label = cases[i][1]
                  /\ IsFixedOf(vectors[j].operand_a, cases[i][2])
                  /\ IsFixedOf(vectors[j].operand_b, cases[i][3])
                  /\ IsFixedOf(vectors[j].expected, vectors[j].exact_value)

\* C19: output ordering.  The returned sequence is in non-decreasing order
\* of label, whatever the order in which the cases were appended.
C19_SortedByLabel ==
    \A j \in 1 .. Len(vectors) - 1 :
        ~LexLess(vectors[j + 1].label, vectors[j].label)

\* a run with random cases whose cases were not appended in label order
C19_Witness ==
    /\ runs > 0
    /\ random_count > 0
    /\ Len(vectors) > random_count
    /\ \E i \in 1 .. Len(cases) - 1 : LexLess(cases[i + 1][1], cases[i][1])

\* operand_a, operand_b and expected of random_000 .. random_003 as the
\* generator, run as a program, returns them for seed s and the range that
\* starts at the whole number low and is 12 wide
RecordedRandomVectors(s, low) ==
    CASE s = 0 /\ low = 0 ->
            <<<<10376, 9314, 10963>>, <<5168, 3182, 5510>>, <<6283, 4976, 6793>>, <<9631, 3727, 9658>>>>
      [] s = 0 /\ low = -6 ->
            <<<<4232, 3170, 4819>>, <<0, 0, 0>>, <<139, 0, 649>>, <<3487, 0, 3514>>>>
      [] s = 0 /\ low = 4 ->
            <<<<14472, 13410, 15059>>, <<9264, 7278, 9606>>, <<10379, 9072, 10889>>, <<13727, 7823, 13754>>>>
      [] s = 1 /\ low = 0 ->
            <<<<1651, 10413, 10417>>, <<9385, 3134, 9407>>, <<6088, 5523, 6856>>, <<8007, 9692, 10102>>>>
      [] s = 1 /\ low = -6 ->
            <<<<0, 4269, 4273>>, <<3241, 0, 3263>>, <<0, 0, 712>>, <<1863, 3548, 3958>>>>
      [] s = 1 /\ low = 4 ->
            <<<<5747, 14509, 14513>>, <<13481, 7230, 13503>>, <<10184, 9619, 10952>>, <<12103, 13788, 14198>>>>
      [] s = 2025 /\ low = 0 ->
            <<<<6854, 7936, 8516>>, <<5869, 2129, 5982>>, <<5, 11960, 11960>>, <<7001, 808, 7023>>>>
      [] s = 2025 /\ low = -6 ->
            <<<<710, 1792, 2372>>, <<0, 0, 0>>, <<0, 5816, 5816>>, <<857, 0, 879>>>>
      [] s = 2025 /\ low = 4 ->
            <<<<10950, 12032, 12612>>, <<9965, 6225, 10078>>, <<4101, 16056, 16056>>, <<11097, 4904, 11119>>>>

\* C20: determinism.  A run with the same seed, base cases, random_count,
\* tolerance_lsb and value_range as the run before it returns the same
\* sequence of vectors, field for field and in the same order; and what a
\* seed reproduces is the one vector set recorded for it: every run returns
\* the recorded operand_a, operand_b and expected for each random case.
C20_Deterministic ==
    runs >= 1 =>
        /\ runs >= 2 => vectors = prev_vectors
        /\ \A idx \in 0 .. random_count - 1 :
              \E j \in 1 .. Len(vectors) :
                  /\ vectors[j].label = RandomLabel(idx)
                  /\ <<vectors[j].operand_a, vectors[j].operand_b,
                        vectors[j].expected>>
                         = RecordedRandomVectors(
                               seed, value_range[1].units \div RealUnit)[idx + 1]

\* a second run with random cases, started when the generator of the first
\* run had been drawn from
C20_Witness ==
    /\ runs >= 2
    /\ random_count > 0
    /\ rng_state # Random(seed, rng_state)
    /\ vectors = prev_vectors
    /\ \E j \in 1 .. Len(vectors) : vectors[j].label = RandomLabel(0)

\* C21: base cases always included.  A run returns exactly
\* len(base_cases) + random_count vectors; every base case appears once,
\* under its own label and with its own operands; the random cases are
\* labelled random_000, random_001, ... and for each index operand a is the
\* earlier draw of the generator and operand b the later one.
C21_BaseCasesIncluded ==
    runs > 0 =>
        /\ Len(vectors) = Len(base_cases) + random_count
        /\ \A i \in 1 .. Len(base_cases) :
              /\ Cardinality({j \in 1 .. Len(vectors) :
                                 vectors[j].label = base_cases[i][1]}) = 1
              /\ \E j \in 1 .. Len(vectors) :
                    /\ vectors[j].label = base_cases[i][1]
                    /\ IsFixedOf(vectors[j].operand_a, base_cases[i][2])
                    /\ IsFixedOf(vectors[j].operand_b, base_cases[i][3])
        /\ \A idx \in 0 .. random_count - 1 :
              LET lab == RandomPrefix \o <<48, 48 + (idx \div 10), 48 + (idx % 10)>>
                  start == Random(seed, rng_state)
                  earlier == uniform(RngAfter(start, (2 * idx) + 1),
                                     value_range[1], value_range[2])
                  later == uniform(RngAfter(start, (2 * idx) + 2),
                                   value_range[1], value_range[2])
              IN  /\ Cardinality({j \in 1 .. Len(vectors) :
                                     vectors[j].label = lab}) = 1
                  /\ \E j \in 1 .. Len(vectors) :
                        /\ vectors[j].label = lab
                        /\ IsFixedOf(vectors[j].operand_a, earlier)
                        /\ IsFixedOf(vectors[j].operand_b, later)

\* a run over BASE_CASES with at least two random cases, the second of
\* which has different operands
C21_Witness ==
    /\ runs > 0
    /\ base_cases = BASE_CASES
    /\ random_count >= 2
    /\ Len(vectors) = 12 + random_count
    /\ \E j \in 1 .. Len(vectors) :
          /\ vectors[j].label = RandomPrefix \o <<48, 48, 49>>
          /\ vectors[j].operand_a # vectors[j].operand_b

----------------------------------------------------------------------------
(* Further claims about lse_add_adaptive *)

\* C22: width configuration check.  A call with a zero or negative width
\* ends with InvalidConfiguration and without a result.
C22_WidthCheck ==
    (width < 1 /\ pc # "ready") =>
        /\ pc = "raised"
        /\ exception = "InvalidConfiguration"
        /\ result = 0

\* the lane widths of the three SIMD modes
SupportedWidths == {6, 12, 24}

\* C23: the sentinel is never produced from finite operands.  For the
\* widths 6, 12 and 24 and operands both different from 2^(W-1), the result
\* is different from 2^(W-1).
C23_SentinelNeverProduced ==
    (Returned /\ width \in SupportedWidths /\ NoSentinel) =>
        result # Sentinel

\* C24: accumulation never decreases.  In an accumulation that starts
\* from a non-sentinel code and is fed non-sentinel codes, the accumulator
\* after each step is at least its value before the step.
C24_AccumulationNeverDecreases ==
    acc_steps > 0 => acc >= acc_before

\* C25: associativity.  For the widths 6, 12 and 24 and all codes a, b, c,
\* combining a with b and then with c gives the same code as combining a
\* with the combination of b and c.
C25_Associative ==
    assoc_done = {"left", "right"} => left_assoc = right_assoc

\* C26: monotonicity.  For the widths 6, 12 and 24 and non-sentinel codes
\* a, b, b2 with b <= b2, the result for (a, b) is not above the result for
\* (a, b2).
C26_Monotone ==
    (Returned /\ width \in SupportedWidths /\ NoSentinel) =>
        \A b2 \in Codes(width) :
            (b2 # Sentinel /\ operand_b <= b2) =>
                result <= lse_add_adaptive(operand_a, b2, width)

\* C27: MAX_VAL is absorbing.  For every width W >= 4 and every code x, the
\* sentinel included, a call with MAX_VAL = 2^W - 1 as either operand
\* returns MAX_VAL.
C27_MaxAbsorbing ==
    (Returned /\ width >= 4 /\ (operand_a = Top \/ operand_b = Top)) =>
        result = Top

\* a call at width 12 with MAX_VAL and the sentinel as operands
C27_Witness ==
    /\ Returned
    /\ width = 12
    /\ operand_a = Sentinel
    /\ operand_b = Top
    /\ result = 4095

\* C28: degenerate narrow widths.  For every width 4 <= W < 8 the
\* correction W div 8 is zero and the result for non-sentinel operands is
\* the larger operand, on either side of the threshold.
C28_NarrowWidthsGiveMax ==
    (Returned /\ 4 <= width /\ width < 8 /\ NoSentinel) =>
        /\ width \div 8 = 0
        /\ result = OpMax

\* a call at a width below 8 whose operands are closer than the threshold
\* and different
C28_Witness ==
    /\ Returned
    /\ 4 <= width
    /\ width < 8
    /\ NoSentinel
    /\ DiffCloserThanThreshold
    /\ OpDiff < 0
    /\ result = OpMax

----------------------------------------------------------------------------
(* Further claims about the lanes and the reference vectors *)

\* C29: reverse lane round trip.  For the lane layouts (24, 1), (12, 2) and
\* (6, 4), the lanes taken from a 24-bit word are W-bit codes that cover
\* the word, and packed again they are the word itself: both by the packing
\* expression applied to them, and by the result word of a test case whose
\* other operand holds the sentinel in every lane.
C29_WordRoundTrip ==
    pc = "returned" =>
        /\ Pack(x_lanes, mode) = x_in
        /\ Len(x_lanes) * LaneWidth(mode) = 24
        /\ \A i \in 1 .. Len(x_lanes) :
              0 <= x_lanes[i] /\ x_lanes[i] < 2^LaneWidth(mode)
        /\ (\A i \in 1 .. Len(y_lanes) : y_lanes[i] = 2^(LaneWidth(mode) - 1))
               => exp_result = x_in

\* the word with one bit clear at a lane boundary, in the 4x6b layout
C29_Witness ==
    /\ pc = "returned"
    /\ mode = 2
    /\ x_in = (2^24 - 1) - 2^6
    /\ x_lanes = <<63, 62, 63, 63>>
    /\ y_lanes = <<32, 32, 32, 32>>
    /\ exp_result = x_in

\* C30: expected never below the operands.  In every returned vector
\* expected is at least the larger of operand_a and operand_b.
C30_ExpectedNotBelowOperands ==
    \A j \in 1 .. Len(vectors) :
        /\ vectors[j].expected >= vectors[j].operand_a
        /\ vectors[j].expected >= vectors[j].operand_b

\* a run with a vector whose expected is above both operands, one whose
\* expected equals its larger operand below the top of the range, and one
\* whose operand and expected are both clamped to the top code
C30_Witness ==
    /\ runs > 0
    /\ \E j \in 1 .. Len(vectors) :
          /\ vectors[j].expected > vectors[j].operand_a
          /\ vectors[j].expected > vectors[j].operand_b
          /\ vectors[j].operand_a # vectors[j].operand_b
    /\ \/ \E j \in 1 .. Len(vectors) :
             /\ vectors[j].expected = vectors[j].operand_a
             /\ vectors[j].operand_b < vectors[j].operand_a
             /\ vectors[j].expected < TopCode
       \/ \E j \in 1 .. Len(vectors) :
             /\ vectors[j].expected = TopCode
             /\ vectors[j].operand_a = TopCode

====
